---- MODULE Spec2Model ----
(***************************************************************************)
(* Granule ingest pipeline of cumulus: sync-granule download() under the   *)
(* resource lock, Granule.ingest / ingestFile, Discover.discover and       *)
(* moveGranuleFiles, over a shared object store and lease store.           *)
(***************************************************************************)
EXTENDS Integers, Sequences, FiniteSets, TLC

VARIABLES
  store,      \* object store: <<bucket, dir, name>> -> content
  leases,     \* lease store: set of <<provider id, granuleId, creator>>
  cfg,        \* step configuration: duplicateHandling, fileStagingDir shape
  inv,        \* per download() invocation: position, input, ingest object, result
  tasks,      \* per invocation: the ingestFile promises of the current granule
  faults,     \* failures of the provider and of the object store so far
  coll,       \* the collection configuration
  listing,    \* what the provider lists under the collection's path
  disc,       \* the Discover object: position, discovered files, result
  sourceFiles, \* the File records handed to moveGranuleFiles
  mv,         \* the moveGranuleFiles call: position, requests per file
  cmr,        \* the metadata documents published to CMR
  template,   \* the message template stored on S3
  queue,      \* the messages sent to the SQS queue, in order
  uuids,      \* how many values uuidv4() has returned
  pdr,        \* the PDR handed to parsePdr and the step's granuleIdFilter
  pdrOut,     \* what parsePdr returned or threw
  versioning, \* bucket -> versioning status of the bucket
  pending,    \* S3 versioning requests in flight that nothing awaits
  urlFile,    \* the file whose url_path is resolved
  urlOut      \* the url_path that each of the three resolutions returned

discVars == <<coll, listing, disc>>
moveVars == <<sourceFiles, mv, cmr>>
queueVars == <<template, queue, uuids>>
pdrVars == <<pdr, pdrOut>>
versionVars == <<versioning, pending>>
vars == <<store, leases, cfg, inv, tasks, faults, discVars, moveVars,
          queueVars, pdrVars, versionVars, urlFile, urlOut>>

Null == "null"

\* ---------------------------------------------------------------- bounds
MaxGranules == 2     \* longest input.granules list
MaxAttempts == 1     \* lock.proceed retries before it gives up
MaxFaults == 1       \* failures of the provider or the object store in one run
MaxListing == 3      \* longest provider listing
MaxMoves == 2        \* calls of moveGranuleFiles on one granule
MaxRules == 2        \* longest file rule list of a collection in the url_path runs

\* ---------------------------------------------------------------- universe
Invs == {"A", "B"}
GranuleIds == {"g1", "g2"}
ProviderId == "p1"
DownloadBucket == "internal"
Contents == {11, 22}

\* What the provider may serve for a file: the hdf files come in two
\* versions, of which the first is the one the embedded checksum is of.
RemoteContents(n) == IF n[2] = "hdf" THEN Contents ELSE {11}

\* File names are the dot-separated components of the name.
HdfName(g) == <<g, "hdf">>
JpgName(g) == <<g, "jpg">>
Md5Name(g) == <<g, "jpg", "md5">>

\* checksumS3Objects(type, bucket, key) of @cumulus/common/aws
Cksum(c) == (c * 7) % 13
Md5(c) == (c * 5) % 13
checksumS3Objects(type, key) ==
  IF type = "CKSUM" THEN Cksum(store[key]) ELSE Md5(store[key])

\* The files of the granules handed to sync-granule.  g1: an hdf file with
\* an embedded CKSUM checksum, a jpg file and the .md5 sidecar of the jpg
\* file.  g2: a jpg file with no checksum at all.
NoKey == <<Null, <<>>, <<>>>>
InputFile(n, type, value) ==
  [name |-> n, checksumType |-> type, checksumValue |-> value, filename |-> NoKey,
   bucket |-> Null, url_path |-> Null]
InputFiles(g) ==
  IF g = "g1"
    THEN << InputFile(HdfName(g), "CKSUM", Cksum(11)),
            InputFile(JpgName(g), Null, 0),
            InputFile(Md5Name(g), Null, 0) >>
    ELSE << InputFile(JpgName(g), Null, 0) >>

\* input.granules: invocation A gets any list up to MaxGranules, the
\* others a single granule
InputGranule(g) == [granuleId |-> g, files |-> InputFiles(g)]
GranuleLists(i) ==
  LET ids == IF i = "A" THEN UNION { [1..n -> GranuleIds] : n \in 1..MaxGranules }
             ELSE [1..1 -> GranuleIds]
  IN { [k \in 1..Len(l) |-> InputGranule(l[k])] : l \in ids }


\* event.config.buckets: bucket key -> name and type
Buckets ==
  [internal |-> [name |-> DownloadBucket, type |-> "internal"],
   protected |-> [name |-> "b-protected", type |-> "protected"],
   public |-> [name |-> "b-public", type |-> "public"]]

\* The buckets of the deployment
BucketNames == {DownloadBucket, "b-protected", "b-public"}

\* A regular expression of a rule is '\.<ext>$' (anchored), '\.<ext>' (not
\* anchored) or '.*'; file.name.match(regex)
Regex(ext, anchored) == [ext |-> ext, anchored |-> anchored]
Match(n, regex) ==
  IF regex.ext = ".*" THEN TRUE
  ELSE IF regex.anchored THEN n[Len(n)] = regex.ext
  ELSE \E p \in 2..Len(n) : n[p] = regex.ext

FileRule(regex, bucket, urlPath) ==
  [regex |-> regex, bucket |-> bucket, url_path |-> urlPath]
\* ---------------------------------------------------------------- lock
\* @cumulus/ingest/lock.  A lease is keyed by (provider id, granuleId); its
\* third component tells the leases of one key apart by who created them,
\* as the acquisition timestamp does.
Locked(g) == \E l \in leases : l[1] = ProviderId /\ l[2] = g

\* lock.proceed, successful: create-if-absent
addLock(g, i) == leases \cup {<<ProviderId, g, i>>}

\* lock.removeLock(bucket, provider.id, granuleId): unconditional delete
removeLock(g) == {l \in leases : ~(l[1] = ProviderId /\ l[2] = g)}

\* ---------------------------------------------------------------- Granule
\* file.name.indexOf('.md5') > 0
IsChecksumName(n) == \E p \in 2..Len(n) : n[p] = "md5"

\* file.name.replace('.md5', ''): drops the first '.md5'
StripMd5(n) ==
  LET p == CHOOSE q \in 2..Len(n) :
             n[q] = "md5" /\ \A q2 \in 2..(q - 1) : n[q2] # "md5"
  IN SubSeq(n, 1, p - 1) \o SubSeq(n, p + 1, Len(n))

\* this.fileStagingDir, as path components: syncGranule joins the configured
\* directory and the stack, every ingest() call joins the collection id.
fileStagingDir(r) ==
  (IF cfg.leadingSlash THEN <<"">> ELSE << >>)
    \o <<"file-staging", "stack">> \o [n \in 1..r.stagingDepth |-> "coll"]

\* ingestFile: the key of the existence check
ExistsKey(r, n) == <<DownloadBucket, fileStagingDir(r), n>>

\* ingestFile: fullKey, the leading '/' removed
FullKey(r, n) ==
  LET dir == fileStagingDir(r)
  IN <<DownloadBucket, IF Head(dir) = "" THEN Tail(dir) ELSE dir, n>>

\* Granule.filterChecksumFiles over the files of a granule: the names it
\* registers in this.checksumFiles
filterChecksumFiles(files) ==
  { StripMd5(files[j].name) :
      j \in { q \in 1..Len(files) : IsChecksumName(files[q].name) } }

\* Granule.ingest up to Promise.all: the ingest object after the call
ingest(r, k) ==
  [r EXCEPT !.pc = "ingesting", !.k = k,
            !.stagingDepth = @ + 1,
            !.checksumFiles = @ \cup filterChecksumFiles(r.granules[k].files)]

\* Granule.ingest: one ingestFile promise per file that is no sidecar
downloadFiles(granule) ==
  [j \in 1..Len(granule.files) |->
     [pc |-> IF IsChecksumName(granule.files[j].name) THEN "filtered" ELSE "exists",
      file |-> granule.files[j], err |-> Null, checksum |-> "unchecked"]]

\* the files Promise.all resolves with
ResolvedFiles(ts) ==
  LET keep == SelectSeq(ts, LAMBDA t : t.pc # "filtered")
  IN [j \in 1..Len(keep) |-> keep[j].file]

AllSettledOk(ts) == \A j \in 1..Len(ts) : ts[j].pc \in {"filtered", "done"}

\* A getChecksumFromFile that looks for the sidecar first
getChecksumFromFileSidecarFirst(r, file, v) ==
  IF file.name \in r.checksumFiles THEN <<"md5", v>>
  ELSE IF file.checksumType # Null /\ file.checksumValue # 0
    THEN <<file.checksumType, file.checksumValue>>
  ELSE <<Null, 0>>

\* Granule.getChecksumFromFile: the embedded checksum when type and value
\* are both there (an absent value is 0, falsy like undefined), else the
\* value read from the registered sidecar (v, taken as md5), else none
getChecksumFromFile(r, file, v) ==
  IF file.checksumType # Null /\ file.checksumValue # 0
    THEN <<file.checksumType, file.checksumValue>>
  ELSE IF file.name \in r.checksumFiles THEN <<"md5", v>>
  ELSE <<Null, 0>>

\* Granule.validateChecksum: TRUE when it returns, FALSE when it throws
\* InvalidChecksum
validateChecksum(r, file, v) ==
  LET tv == getChecksumFromFile(r, file, v)
  IN IF tv[1] = Null \/ tv[2] = 0 THEN TRUE
     ELSE tv[2] = checksumS3Objects(tv[1], FullKey(r, file.name))

\* Granule.getUrlPath: the url_path of the last rule that matches the name
\* and has a url_path, else the collection's
getUrlPath(n) ==
  LET hits == { q \in 1..Len(coll.files) :
                  Match(n, coll.files[q].regex) /\ coll.files[q].url_path # "" }
  IN IF hits = {} THEN coll.url_path
     ELSE coll.files[CHOOSE q \in hits : \A q2 \in hits : q2 <= q].url_path

\* A catch that rethrows what it caught
errorToThrowUnchanged(e) == e

\* syncGranule's catch: the error it rethrows
errorToThrow(e) ==
  IF e = "ECONNREFUSED" THEN "RemoteResourceError"
  ELSE IF e = "timeout" THEN "ConnectionTimeout"
  ELSE e

NoResult == [status |-> "none", granules |-> << >>, error |-> Null]

\* download(): what follows the settling of one ingestFile promise (ts: the
\* promises after it, e: the error of a rejection).  The
\* first rejection rejects Promise.all and enters the catch block; the last
\* fulfilment resolves ingest(), pushes the granule and either starts the
\* ingest of the next granule or goes on to the final removeLock.
download(i, ts, e) ==
  LET r == inv[i]
      rec == [granuleId |-> r.granules[r.k].granuleId, files |-> ResolvedFiles(ts)]
  IN IF r.pc # "ingesting"
       THEN inv' = inv /\ tasks' = [tasks EXCEPT ![i] = ts]
     ELSE IF \E j \in 1..Len(ts) : ts[j].pc = "failed"
       THEN /\ inv' = [inv EXCEPT ![i].pc = "catch", ![i].err = e]
            /\ tasks' = [tasks EXCEPT ![i] = ts]
     ELSE IF ~AllSettledOk(ts)
       THEN inv' = inv /\ tasks' = [tasks EXCEPT ![i] = ts]
     ELSE IF r.k < Len(r.granules)
       THEN /\ inv' = [inv EXCEPT ![i] =
                         ingest([r EXCEPT !.updatedGranules = Append(@, rec)], r.k + 1)]
            /\ tasks' = [tasks EXCEPT ![i] = downloadFiles(r.granules[r.k + 1])]
     ELSE /\ inv' = [inv EXCEPT ![i].pc = "unlock",
                       ![i].updatedGranules = Append(@, rec)]
          /\ tasks' = [tasks EXCEPT ![i] = ts]

\* ---------------------------------------------------------------- actions
\* lock.proceed creates the lease; download() starts the first ingest
ProceedAcquire(i) ==
  /\ inv[i].pc = "start"
  /\ ~Locked(inv[i].granules[1].granuleId)
  /\ leases' = addLock(inv[i].granules[1].granuleId, i)
  /\ inv' = [inv EXCEPT ![i] = ingest(inv[i], 1)]
  /\ tasks' = [tasks EXCEPT ![i] = downloadFiles(inv[i].granules[1])]
  /\ UNCHANGED <<store, cfg, faults, discVars, moveVars, queueVars, pdrVars, versionVars, urlFile, urlOut>>

\* lock.proceed finds the lease taken and tries again after the backoff
ProceedRetry(i) ==
  /\ inv[i].pc = "start"
  /\ Locked(inv[i].granules[1].granuleId)
  /\ inv[i].attempts < MaxAttempts
  /\ inv' = [inv EXCEPT ![i].attempts = @ + 1]
  /\ UNCHANGED <<store, leases, cfg, tasks, faults, discVars, moveVars, queueVars, pdrVars, versionVars, urlFile, urlOut>>

\* A download() whose ResourcesLockedError passes through the catch block:
\* the lock of the first granule is removed before the error is thrown
ProceedGiveUpRemovesLock(i) ==
  /\ inv[i].pc = "start"
  /\ Locked(inv[i].granules[1].granuleId)
  /\ inv[i].attempts >= MaxAttempts
  /\ leases' = removeLock(inv[i].granules[1].granuleId)
  /\ inv' = [inv EXCEPT ![i].pc = "failed",
                ![i].result = [NoResult EXCEPT !.status = "error",
                                 !.error = errorToThrow("ResourcesLockedError")]]
  /\ UNCHANGED <<store, cfg, tasks, faults, discVars, moveVars, queueVars, pdrVars, versionVars, urlFile, urlOut>>

\* lock.proceed returns false: download() throws ResourcesLockedError
ProceedGiveUp(i) ==
  /\ inv[i].pc = "start"
  /\ Locked(inv[i].granules[1].granuleId)
  /\ inv[i].attempts >= MaxAttempts
  /\ inv' = [inv EXCEPT ![i].pc = "failed",
                ![i].result = [NoResult EXCEPT !.status = "error",
                                 !.error = errorToThrow("ResourcesLockedError")]]
  /\ UNCHANGED <<store, leases, cfg, tasks, faults, discVars, moveVars, queueVars, pdrVars, versionVars, urlFile, urlOut>>

\* Granule.enableBucketVersioning(bucket), up to its first await: the
\* getBucketVersioning request it sends.  A request without a bucket name
\* (file.bucket undefined) is refused before it is sent.
enableBucketVersioning(bucket) ==
  IF bucket \in BucketNames THEN {<<"get", bucket>>} ELSE {}

\* ingestFile: the existence check, the early exit of 'skip' and the call
\* of enableBucketVersioning(file.bucket), which ingestFile does not await
IngestFileExists(i, j) ==
  /\ j \in 1..Len(tasks[i])
  /\ tasks[i][j].pc = "exists"
  /\ LET exists == ExistsKey(inv[i], tasks[i][j].file.name) \in DOMAIN store
     IN IF exists /\ cfg.duplicateHandling = "skip"
          THEN download(i, [tasks[i] EXCEPT ![j].pc = "done"], Null)
          ELSE download(i, [tasks[i] EXCEPT ![j].pc = "sync"], Null)
  /\ pending' = IF cfg.duplicateHandling = "version"
                  THEN pending \cup enableBucketVersioning(tasks[i][j].file.bucket)
                  ELSE pending
  /\ UNCHANGED <<store, leases, cfg, faults, discVars, moveVars, queueVars, pdrVars,
                 versioning, urlFile, urlOut>>

\* enableBucketVersioning: getBucketVersioning answers; when the status is
\* not Enabled, putBucketVersioning is sent and not awaited
GetBucketVersioning(b) ==
  /\ <<"get", b>> \in pending
  /\ pending' = (pending \ {<<"get", b>>})
                  \cup (IF versioning[b] # "Enabled" THEN {<<"put", b>>} ELSE {})
  /\ UNCHANGED <<store, leases, cfg, inv, tasks, faults, discVars, moveVars,
                 queueVars, pdrVars, versioning, urlFile, urlOut>>

\* the putBucketVersioning request takes effect
PutBucketVersioning(b) ==
  /\ <<"put", b>> \in pending
  /\ pending' = pending \ {<<"put", b>>}
  /\ versioning' = [versioning EXCEPT ![b] = "Enabled"]
  /\ UNCHANGED <<store, leases, cfg, inv, tasks, faults, discVars, moveVars,
                 queueVars, pdrVars, urlFile, urlOut>>

\* ingestFile: this.sync streams the remote file to the staging key
IngestFileSync(i, j) ==
  /\ j \in 1..Len(tasks[i])
  /\ tasks[i][j].pc = "sync"
  /\ \E c \in RemoteContents(tasks[i][j].file.name) :
       /\ store' = (FullKey(inv[i], tasks[i][j].file.name) :> c) @@ store
       /\ download(i, [tasks[i] EXCEPT ![j].pc = "validate"], Null)
  /\ UNCHANGED <<leases, cfg, faults, discVars, moveVars, queueVars, pdrVars, versionVars, urlFile, urlOut>>

\* ingestFile: this.sync fails on the connection to the provider
IngestFileSyncFails(i, j) ==
  /\ j \in 1..Len(tasks[i])
  /\ tasks[i][j].pc = "sync"
  /\ faults < MaxFaults
  /\ faults' = faults + 1
  /\ \E e \in {"ECONNREFUSED", "timeout"} :
       download(i, [tasks[i] EXCEPT ![j].pc = "failed", ![j].err = "connection"], e)
  /\ UNCHANGED <<store, leases, cfg, discVars, moveVars, queueVars, pdrVars, versionVars, urlFile, urlOut>>

\* ingestFile: validateChecksum, then the File fields are assigned; the
\* promise keeps the type of the checksum that getChecksumFromFile returned
IngestFileValidate(i, j) ==
  /\ j \in 1..Len(tasks[i])
  /\ tasks[i][j].pc = "validate"
  /\ \E v \in {Md5(c) : c \in Contents} :
       IF validateChecksum(inv[i], tasks[i][j].file, v)
         THEN download(i, [tasks[i] EXCEPT ![j].pc = "done",
                ![j].checksum = getChecksumFromFile(inv[i], tasks[i][j].file, v)[1],
                ![j].file.filename = FullKey(inv[i], tasks[i][j].file.name),
                ![j].file.url_path = getUrlPath(tasks[i][j].file.name),
                ![j].file.bucket = DownloadBucket], Null)
         ELSE download(i, [tasks[i] EXCEPT ![j].pc = "failed",
                ![j].checksum = getChecksumFromFile(inv[i], tasks[i][j].file, v)[1],
                ![j].err = "InvalidChecksum"], "InvalidChecksum")
  /\ UNCHANGED <<store, leases, cfg, faults, discVars, moveVars, queueVars, pdrVars, versionVars, urlFile, urlOut>>

\* A catch block that swallows the error and returns what was ingested
CatchReturnsPartial(i) ==
  /\ inv[i].pc = "catch"
  /\ leases' = removeLock(inv[i].granules[inv[i].k].granuleId)
  /\ inv' = [inv EXCEPT ![i].pc = "done", ![i].err = Null,
                ![i].result = [NoResult EXCEPT !.status = "ok",
                                 !.granules = inv[i].updatedGranules]]
  /\ UNCHANGED <<store, cfg, tasks, faults, discVars, moveVars, queueVars, pdrVars, versionVars, urlFile, urlOut>>

\* download(): the catch block removes the lock of the failed granule and
\* rethrows; syncGranule rejects with the typed error
CatchRemoveLock(i) ==
  /\ inv[i].pc = "catch"
  /\ leases' = removeLock(inv[i].granules[inv[i].k].granuleId)
  /\ inv' = [inv EXCEPT ![i].pc = "failed", ![i].err = Null,
                ![i].result = [NoResult EXCEPT !.status = "error",
                                 !.error = errorToThrow(inv[i].err)]]
  /\ UNCHANGED <<store, cfg, tasks, faults, discVars, moveVars, queueVars, pdrVars, versionVars, urlFile, urlOut>>

\* download(): the final removeLock; syncGranule resolves with the output
FinalRemoveLock(i) ==
  /\ inv[i].pc = "unlock"
  /\ leases' = removeLock(inv[i].granules[1].granuleId)
  /\ inv' = [inv EXCEPT ![i].pc = "done",
                ![i].result = [NoResult EXCEPT !.status = "ok",
                                 !.granules = inv[i].updatedGranules]]
  /\ UNCHANGED <<store, cfg, tasks, faults, discVars, moveVars, queueVars, pdrVars, versionVars, urlFile, urlOut>>

\* no moveGranuleFiles call
NoMove == [pc |-> "off", calls |-> 0, published |-> FALSE,
           destinations |-> << >>, reqs |-> << >>, xml |-> << >>]

\* ---------------------------------------------------------------- Discover
RuleLists ==
  { << FileRule(Regex("hdf", TRUE), "protected", "hdf-path"),
       FileRule(Regex("jpg", FALSE), "public", "") >>,
    << FileRule(Regex("jpg", TRUE), "internal", "") >> }

\* collection.granuleIdExtraction is '^(g[0-9])\.' ("stem": the capture
\* group is the first component of the name) or '^(g)[0-9]\.' ("letter":
\* the capture group is the letter that all granule files start with).
NoMatch == "no-match"
granuleIdMatch(n, extraction) ==
  IF n[1] \notin GranuleIds THEN NoMatch
  ELSE IF extraction = "stem" THEN n[1]
  ELSE "g"

Collections ==
  [granuleIdExtraction : {"stem", "letter"}, files : RuleLists,
   url_path : {"coll-path"}]
DefaultCollection ==
  [granuleIdExtraction |-> "stem",
   files |-> << FileRule(Regex("hdf", TRUE), "protected", "hdf-path"),
                FileRule(Regex("jpg", FALSE), "public", "") >>,
   url_path |-> "coll-path"]

\* The names a provider directory may hold, in listing order, and the
\* listings drawn from them
ProviderNames ==
  << HdfName("g1"), JpgName("g1"), Md5Name("g1"), JpgName("g2"),
     <<"readme", "txt">> >>
RECURSIVE SubListings(_)
SubListings(names) ==
  IF names = << >> THEN { << >> }
  ELSE LET rest == SubListings(Tail(names))
       IN rest \cup { <<Head(names)>> \o l : l \in rest }
Listings == { l \in SubListings(ProviderNames) : Len(l) <= MaxListing }

\* Discover.fileTypeConfigForFile: the first rule whose regex matches
HasFileTypeConfig(n) == \E q \in 1..Len(coll.files) : Match(n, coll.files[q].regex)
fileTypeConfigForFile(n) ==
  coll.files[CHOOSE q \in 1..Len(coll.files) :
               /\ Match(n, coll.files[q].regex)
               /\ \A q2 \in 1..(q - 1) : ~Match(n, coll.files[q2].regex)]

\* x || y || '' on url_path strings
OrElse(x, y) == IF x # "" THEN x ELSE y

\* A setGranuleInfo that takes granuleIdMatch[0], the whole match, which
\* runs up to the first dot of the name
setGranuleInfoWholeMatch(n) ==
  [name |-> n, granuleId |-> n[1],
   bucket |-> Buckets[fileTypeConfigForFile(n).bucket].name,
   url_path |-> OrElse(fileTypeConfigForFile(n).url_path, OrElse(coll.url_path, ""))]

\* Discover.setGranuleInfo
setGranuleInfo(n) ==
  [name |-> n, granuleId |-> granuleIdMatch(n, coll.granuleIdExtraction),
   bucket |-> Buckets[fileTypeConfigForFile(n).bucket].name,
   url_path |-> OrElse(fileTypeConfigForFile(n).url_path, OrElse(coll.url_path, ""))]

\* Discover.discover: the listed files that match the granuleIdExtraction
\* and a file rule, with their granule information
discoveredFiles(l) ==
  LET keep == SelectSeq(l, LAMBDA n :
                /\ granuleIdMatch(n, coll.granuleIdExtraction) # NoMatch
                /\ HasFileTypeConfig(n))
  IN [q \in 1..Len(keep) |-> setGranuleInfo(keep[q])]

\* aws.s3ObjectExists({Bucket: discoveredFile.bucket, Key: discoveredFile.name})
s3ObjectExists(bucket, n) == <<bucket, << >>, n>> \in DOMAIN store

\* Object.keys(groupBy(files, 'granuleId')): the ids in order of appearance
RECURSIVE granuleIds(_)
granuleIds(files) ==
  IF files = << >> THEN << >>
  ELSE LET front == granuleIds(SubSeq(files, 1, Len(files) - 1))
           id == files[Len(files)].granuleId
       IN IF \E q \in 1..Len(front) : front[q] = id THEN front
          ELSE Append(front, id)

\* Discover.discover: the granules built from the new files
buildGranules(newFiles) ==
  LET ids == granuleIds(newFiles)
  IN [q \in 1..Len(ids) |->
       [granuleId |-> ids[q],
        files |-> LET mine == SelectSeq(newFiles, LAMBDA f : f.granuleId = ids[q])
                  IN [x \in 1..Len(mine) |->
                       [name |-> mine[x].name, bucket |-> mine[x].bucket,
                        url_path |-> mine[x].url_path]]]]

\* the files whose existence check said "not there"
NewFiles(files, checks) ==
  LET idx == SelectSeq([q \in 1..Len(files) |-> q], LAMBDA q : checks[q] = "new")
  IN [x \in 1..Len(idx) |-> files[idx[x]]]

NoDiscover ==
  [pc |-> "off", pass |-> 0, files |-> << >>, checks |-> << >>,
   result |-> << >>, first |-> << >>]

\* discover(): list() returned; the files are filtered and mapped and the
\* existence checks are sent
DiscoverList ==
  /\ disc.pc = "idle"
  /\ LET files == discoveredFiles(listing)
     IN disc' = [disc EXCEPT
                   !.pc = IF files = << >> THEN "done" ELSE "checking",
                   !.files = files,
                   !.checks = [q \in 1..Len(files) |-> "pending"],
                   !.result = << >>]
  /\ UNCHANGED <<store, leases, cfg, inv, tasks, faults, coll, listing, moveVars, queueVars, pdrVars, versionVars, urlFile, urlOut>>

\* discover(): list() threw; the catch logs it and discoveredFiles stays []
DiscoverListFails ==
  /\ disc.pc = "idle"
  /\ faults < MaxFaults
  /\ faults' = faults + 1
  /\ disc' = [disc EXCEPT !.pc = "done", !.files = << >>, !.checks = << >>,
                          !.result = << >>]
  /\ UNCHANGED <<store, leases, cfg, inv, tasks, coll, listing, moveVars, queueVars, pdrVars, versionVars, urlFile, urlOut>>

\* discover(): one existence check answers; after the last answer the new
\* files are grouped and the granules returned
DiscoverExists(q) ==
  /\ disc.pc = "checking"
  /\ q \in 1..Len(disc.checks)
  /\ disc.checks[q] = "pending"
  /\ LET checks == [disc.checks EXCEPT ![q] =
                      IF s3ObjectExists(disc.files[q].bucket, disc.files[q].name)
                        THEN "exists" ELSE "new"]
     IN IF \E x \in 1..Len(checks) : checks[x] = "pending"
          THEN disc' = [disc EXCEPT !.checks = checks]
          ELSE disc' = [disc EXCEPT !.checks = checks, !.pc = "done",
                          !.result = buildGranules(NewFiles(disc.files, checks))]
  /\ UNCHANGED <<store, leases, cfg, inv, tasks, faults, coll, listing, moveVars, queueVars, pdrVars, versionVars, urlFile, urlOut>>

\* discover(): one existence check rejects, and so does Promise.all
DiscoverExistsFails(q) ==
  /\ disc.pc = "checking"
  /\ q \in 1..Len(disc.checks)
  /\ disc.checks[q] = "pending"
  /\ faults < MaxFaults
  /\ faults' = faults + 1
  /\ disc' = [disc EXCEPT !.pc = "error", !.checks[q] = "failed"]
  /\ UNCHANGED <<store, leases, cfg, inv, tasks, coll, listing, moveVars, queueVars, pdrVars, versionVars, urlFile, urlOut>>

\* syncGranule: a fresh ingest object for the input granules
\* An execution name is a pair: <<"uuid", k>> is the k-th value of uuidv4(),
\* <<"template", 0>> a name written in the template, <<"none", 0>> no
\* execution_name field at all.
NoName == <<"none", 0>>
TemplateName == <<"template", 0>>
uuidv4(k) == <<"uuid", k>>

\* The message templates a deployment may store on S3: cumulus_meta with
\* or without an execution_name
Templates == [cumulus_meta : [execution_name : {NoName, TemplateName}]]

\* no publish call and no parsePdr call in this run
QueueOff ==
  /\ template = [cumulus_meta |-> [execution_name |-> NoName]]
  /\ queue = << >>
  /\ uuids = 0
NoPdr == [groups |-> << >>, granuleIdFilter |-> Null]
NoParse == [pc |-> "off"]
PdrOff ==
  /\ pdr = NoPdr
  /\ pdrOut = NoParse

\* a bucket is created with versioning off
VersionOff ==
  /\ versioning = [b \in BucketNames |-> "Suspended"]
  /\ pending = {}
NoUrl == [pc |-> "off", getUrlPath |-> Null, addUrlPathToFile |-> Null,
          setGranuleInfo |-> Null]

InitInv(gs) ==
  [pc |-> "start", granules |-> gs, k |-> 0, attempts |-> 0,
   stagingDepth |-> 0, checksumFiles |-> {}, updatedGranules |-> << >>,
   err |-> Null, result |-> NoResult]

Init ==
  /\ store = << >>
  /\ leases = {}
  /\ cfg \in [duplicateHandling : {"replace", "skip", "version"},
               leadingSlash : BOOLEAN]
  /\ \E gl \in [Invs -> UNION {GranuleLists(i) : i \in Invs}] :
       /\ \A i \in Invs : gl[i] \in GranuleLists(i)
       /\ inv = [i \in Invs |-> InitInv(gl[i])]
  /\ tasks = [i \in Invs |-> << >>]
  /\ faults = 0
  /\ coll = DefaultCollection
  /\ listing = << >>
  /\ disc = NoDiscover
  /\ sourceFiles = << >>
  /\ mv = NoMove
  /\ cmr = << >>
  /\ QueueOff
  /\ PdrOff
  /\ VersionOff
  /\ urlFile = << >>
  /\ urlOut = NoUrl

SyncNext ==
  \E i \in Invs :
    \/ ProceedAcquire(i)
    \/ ProceedRetry(i)
    \/ ProceedGiveUp(i)
    \/ CatchRemoveLock(i)
    \/ FinalRemoveLock(i)
    \/ \E j \in 1..3 :
         \/ IngestFileExists(i, j)
         \/ IngestFileSync(i, j)
         \/ IngestFileSyncFails(i, j)
         \/ IngestFileValidate(i, j)

Next == SyncNext

Spec == Init /\ [][Next]_vars

\* ---------------------------------------------------------------- discovery runs
\* The granules of a discover() pass as the input of sync-granule
QueuedGranules(granules) ==
  [k \in 1..Len(granules) |->
     [granuleId |-> granules[k].granuleId,
      files |-> [x \in 1..Len(granules[k].files) |->
                  InputFile(granules[k].files[x].name, Null, 0)]]]

\* The discovered granules reach sync-granule: A is handed the list, and B,
\* a second delivery, its first granule
QueueGranules(i) ==
  /\ disc.pc = "done"
  /\ disc.pass = 1
  /\ disc.result # << >>
  /\ inv[i].pc = "off"
  /\ inv' = [inv EXCEPT ![i] =
               InitInv(IF i = "A" THEN QueuedGranules(disc.result)
                       ELSE SubSeq(QueuedGranules(disc.result), 1, 1))]
  /\ UNCHANGED <<store, leases, cfg, tasks, faults, discVars, moveVars, queueVars, pdrVars, versionVars, urlFile, urlOut>>

\* discover() is called again on the unchanged listing once sync-granule
\* is through with what the first pass returned
DiscoverAgain ==
  /\ disc.pc = "done"
  /\ disc.pass = 1
  /\ \A i \in Invs : inv[i].pc \in {"off", "done", "failed"}
  /\ disc.result # << >> => inv["A"].pc # "off"
  /\ disc' = [disc EXCEPT !.pc = "idle", !.pass = 2, !.first = disc.result,
                          !.files = << >>, !.checks = << >>, !.result = << >>]
  /\ UNCHANGED <<store, leases, cfg, inv, tasks, faults, coll, listing, moveVars, queueVars, pdrVars, versionVars, urlFile, urlOut>>

\* An object that a listed file's existence check may find
SeededStores ==
  { << >>, (<<"b-protected", << >>, HdfName("g1")>> :> 11) }

InitDiscover ==
  /\ store \in SeededStores
  /\ leases = {}
  /\ cfg \in [duplicateHandling : {"replace", "skip"}, leadingSlash : {FALSE}]
  /\ inv = [i \in Invs |-> [InitInv(<< >>) EXCEPT !.pc = "off"]]
  /\ tasks = [i \in Invs |-> << >>]
  /\ faults = 0
  /\ coll \in Collections
  /\ listing \in Listings
  /\ disc = [NoDiscover EXCEPT !.pc = "idle", !.pass = 1]
  /\ sourceFiles = << >>
  /\ mv = NoMove
  /\ cmr = << >>
  /\ QueueOff
  /\ PdrOff
  /\ VersionOff
  /\ urlFile = << >>
  /\ urlOut = NoUrl

\* one discover() pass
NextDiscover ==
  \/ DiscoverList
  \/ DiscoverListFails
  \/ \E q \in 1..Len(ProviderNames) : DiscoverExists(q) \/ DiscoverExistsFails(q)

SpecDiscover == InitDiscover /\ [][NextDiscover]_vars

\* discover(), sync-granule on what it returned, discover() again
NextRediscover ==
  \/ NextDiscover
  \/ SyncNext
  \/ \E i \in Invs : QueueGranules(i)
  \/ DiscoverAgain

SpecRediscover == InitDiscover /\ [][NextRediscover]_vars

\* ---------------------------------------------------------------- move
StagedDir == <<"file-staging", "stack", "coll">>
FinalDir == <<"final">>
CmrName(g) == <<g, "cmr", "xml">>
DistEndpoint == <<"dist">>

\* an S3 URI s3://<bucket>/<dir>/<name> and the key <dir>/<name> inside it
parseS3Uri(uri) == [Bucket |-> uri[1], Key |-> <<uri[2], uri[3]>>]
buildS3Uri(bucket, key) == <<bucket, key[1], key[2]>>
urljoin(dir, n) == <<dir, n>>
\* the object that the S3 parameters {Bucket, Key} address
Object(loc) == <<loc.Bucket, loc.Key[1], loc.Key[2]>>

\* a File record that has no filepath yet, as ingest leaves it
NoPath == << << >>, << >> >>
StagedFile(n, withPath) ==
  [name |-> n, bucket |-> DownloadBucket,
   filepath |-> IF withPath THEN urljoin(StagedDir, n) ELSE NoPath,
   filename |-> buildS3Uri(DownloadBucket, urljoin(StagedDir, n))]

\* the file names of the granules that are moved
MoveNames ==
  { <<HdfName("g1"), JpgName("g1")>>, <<HdfName("g1"), CmrName("g1")>> }

\* the positions of the files in sourceFiles
MoveIndex == UNION {1..Len(names) : names \in MoveNames}

\* the body of an object: a number for data, the document for metadata
Body(n) ==
  IF n = CmrName("g1") THEN [OnlineAccessURLs |-> << >>]
  ELSE IF n = HdfName("g1") THEN 11 ELSE 22

Destination(regex, bucket, filepath) ==
  [regex |-> regex, bucket |-> bucket, filepath |-> filepath]

DestinationLists ==
  { << Destination(Regex("hdf", TRUE), "b-protected", FinalDir),
       Destination(Regex(".*", FALSE), "b-public", FinalDir) >>,
    << Destination(Regex("jpg", TRUE), "b-public", FinalDir) >>,
    << Destination(Regex("hdf", TRUE), "b-other", FinalDir) >> }

\* destinations.find((dest) => file.name.match(dest.regex)); 0 is undefined
findDestination(n, destinations) ==
  LET S == {d \in 1..Len(destinations) : Match(n, destinations[d].regex)}
  IN IF S = {} THEN 0 ELSE CHOOSE d \in S : \A e \in S : d <= e

\* A map callback that sends a file that no rule matches to the first
\* destination instead of skipping it
moveFileRequestDefault(file, destinations) ==
  LET d == findDestination(file.name, destinations)
      parsed == parseS3Uri(file.filename)
      e == IF d # 0 THEN d ELSE 1
  IN [pc |-> "copy", source |-> parsed,
      target |-> [Bucket |-> destinations[e].bucket,
                  Key |-> urljoin(destinations[e].filepath, file.name)]]

\* sourceFiles.map: the move request of a file
moveFileRequest(file, destinations) ==
  LET d == findDestination(file.name, destinations)
      parsed == parseS3Uri(file.filename)
  IN IF d # 0
     THEN [pc |-> "copy", source |-> parsed,
           target |-> [Bucket |-> destinations[d].bucket,
                       Key |-> urljoin(destinations[d].filepath, file.name)]]
     ELSE [pc |-> "skip", source |-> parsed, target |-> parsed]

Settled(reqs) == \A j \in 1..Len(reqs) : reqs[j].pc \in {"done", "skip", "failed"}
Moved(reqs) == \A j \in 1..Len(reqs) : reqs[j].pc \in {"done", "skip"}

xmlFile(files) ==
  SelectSeq(files, LAMBDA f : Len(f.name) >= 3
                               /\ f.name[Len(f.name) - 1] = "cmr"
                               /\ f.name[Len(f.name)] = "xml")

\* what follows Promise.all(moveFileRequests)
afterMoves(files) == IF Len(xmlFile(files)) = 1 THEN "metadata" ELSE "done"

\* contructOnlineAccessUrls: bucketKeys.find is undefined for a bucket that
\* buckets.json does not hold, and reading its type is a TypeError
Configured(files) ==
  \A j \in 1..Len(files) : \E b \in DOMAIN Buckets : Buckets[b].name = files[j].bucket

\* A contructOnlineAccessUrls that makes URLs for protected buckets only
contructProtectedUrls(files) ==
  LET keep == SelectSeq(files, LAMBDA f :
                \E b \in DOMAIN Buckets :
                  Buckets[b].name = f.bucket /\ Buckets[b].type = "protected")
  IN [j \in 1..Len(keep) |->
        [host |-> DistEndpoint, bucket |-> keep[j].bucket,
         filepath |-> keep[j].filepath]]

\* contructOnlineAccessUrls: one URL per file in a protected or public bucket
RECURSIVE contructOnlineAccessUrls(_)
contructOnlineAccessUrls(files) ==
  IF files = << >> THEN << >>
  ELSE LET file == files[1]
           bucketkey == CHOOSE b \in DOMAIN Buckets : Buckets[b].name = file.bucket
           rest == contructOnlineAccessUrls(Tail(files))
       IN IF Buckets[bucketkey].type = "protected"
          THEN <<[host |-> DistEndpoint, bucket |-> Buckets[bucketkey].name,
                  filepath |-> file.filepath]>> \o rest
          ELSE IF Buckets[bucketkey].type = "public"
          THEN <<[host |-> <<Buckets[bucketkey].name, "s3", "amazonaws", "com">>,
                  bucket |-> "", filepath |-> file.filepath]>> \o rest
          ELSE rest

\* moveGranuleFiles is called: every file finds its destination and the
\* copies are requested
MoveStart(destinations, published) ==
  /\ mv.pc \in {"idle", "done", "error"}
  /\ Settled(mv.reqs)
  /\ mv.calls < MaxMoves
  /\ LET reqs == [j \in 1..Len(sourceFiles) |->
                    moveFileRequest(sourceFiles[j], destinations)]
         files == [j \in 1..Len(sourceFiles) |->
                     IF reqs[j].pc = "skip"
                     THEN [sourceFiles[j] EXCEPT !.filepath = reqs[j].source.Key]
                     ELSE sourceFiles[j]]
     IN /\ sourceFiles' = files
        /\ mv' = [pc |-> IF Moved(reqs) THEN afterMoves(files) ELSE "moving",
                  calls |-> mv.calls + 1, published |-> published,
                  destinations |-> destinations, reqs |-> reqs, xml |-> << >>]
  /\ UNCHANGED <<store, leases, cfg, inv, tasks, faults, discVars, cmr, queueVars, pdrVars, versionVars, urlFile, urlOut>>

\* copyGranuleFile: copyObject puts the source's body at the target
MoveCopy(j) ==
  /\ j \in 1..Len(mv.reqs)
  /\ mv.reqs[j].pc = "copy"
  /\ Object(mv.reqs[j].source) \in DOMAIN store
  /\ store' = (Object(mv.reqs[j].target) :> store[Object(mv.reqs[j].source)]) @@ store
  /\ mv' = [mv EXCEPT !.reqs[j].pc = "delete"]
  /\ UNCHANGED <<leases, cfg, inv, tasks, faults, discVars, sourceFiles, cmr, queueVars, pdrVars, versionVars, urlFile, urlOut>>

\* copyGranuleFile: copyObject fails, on a missing source, on a copy of an
\* object onto itself, or on the service; Promise.all rejects
MoveCopyFails(j) ==
  /\ j \in 1..Len(mv.reqs)
  /\ mv.reqs[j].pc = "copy"
  /\ IF \/ Object(mv.reqs[j].source) \notin DOMAIN store
        \/ mv.reqs[j].source = mv.reqs[j].target
     THEN faults' = faults
     ELSE faults < MaxFaults /\ faults' = faults + 1
  /\ mv' = [mv EXCEPT !.reqs[j].pc = "failed",
                      !.pc = IF @ = "moving" THEN "error" ELSE @]
  /\ UNCHANGED <<store, leases, cfg, inv, tasks, discVars, sourceFiles, cmr, queueVars, pdrVars, versionVars, urlFile, urlOut>>

\* moveGranuleFile: deleteObject(source), then the File record is updated
MoveDelete(j) ==
  /\ j \in 1..Len(mv.reqs)
  /\ mv.reqs[j].pc = "delete"
  /\ store' = [k \in DOMAIN store \ {Object(mv.reqs[j].source)} |-> store[k]]
  /\ LET target == mv.reqs[j].target
         files == [sourceFiles EXCEPT
                     ![j].bucket = target.Bucket,
                     ![j].filepath = target.Key,
                     ![j].filename = buildS3Uri(target.Bucket, target.Key)]
         reqs == [mv.reqs EXCEPT ![j].pc = "done"]
     IN /\ sourceFiles' = files
        /\ mv' = [mv EXCEPT !.reqs = reqs,
                            !.pc = IF @ = "moving" /\ Moved(reqs)
                                   THEN afterMoves(files) ELSE @]
  /\ UNCHANGED <<leases, cfg, inv, tasks, faults, discVars, cmr, queueVars, pdrVars, versionVars, urlFile, urlOut>>

\* moveGranuleFile: deleteObject(source) fails; Promise.all rejects
MoveDeleteFails(j) ==
  /\ j \in 1..Len(mv.reqs)
  /\ mv.reqs[j].pc = "delete"
  /\ faults < MaxFaults
  /\ faults' = faults + 1
  /\ mv' = [mv EXCEPT !.reqs[j].pc = "failed",
                      !.pc = IF @ = "moving" THEN "error" ELSE @]
  /\ UNCHANGED <<store, leases, cfg, inv, tasks, discVars, sourceFiles, cmr, queueVars, pdrVars, versionVars, urlFile, urlOut>>

\* the metadata document is where cmrFile.filename says
MetadataThere ==
  LET cmrFile == xmlFile(sourceFiles)[1]
  IN buildS3Uri(parseS3Uri(cmrFile.filename).Bucket,
                parseS3Uri(cmrFile.filename).Key) \in DOMAIN store

\* An updateMetadata that writes the document back without publishing it
UpdateMetadataUnpublished ==
  /\ mv.pc = "metadata"
  /\ Configured(sourceFiles)
  /\ MetadataThere
  /\ mv' = [mv EXCEPT
              !.xml = [OnlineAccessURLs |-> contructOnlineAccessUrls(sourceFiles)],
              !.pc = "post"]
  /\ UNCHANGED <<store, leases, cfg, inv, tasks, faults, discVars, sourceFiles, cmr, queueVars, pdrVars, versionVars, urlFile, urlOut>>

\* updateMetadata: the URLs of the files, and the metadata document read
\* from cmrFile.filename with its OnlineAccessURLs replaced
UpdateMetadata ==
  /\ mv.pc = "metadata"
  /\ Configured(sourceFiles)
  /\ MetadataThere
  /\ mv' = [mv EXCEPT
              !.xml = [OnlineAccessURLs |-> contructOnlineAccessUrls(sourceFiles)],
              !.pc = IF mv.published THEN "publish" ELSE "post"]
  /\ UNCHANGED <<store, leases, cfg, inv, tasks, faults, discVars, sourceFiles, cmr, queueVars, pdrVars, versionVars, urlFile, urlOut>>

\* updateMetadata: contructOnlineAccessUrls throws on a bucket that is not
\* configured, or buckets.json or the metadata document cannot be read
UpdateMetadataFails ==
  /\ mv.pc = "metadata"
  /\ IF ~Configured(sourceFiles) \/ ~MetadataThere
     THEN faults' = faults
     ELSE faults < MaxFaults /\ faults' = faults + 1
  /\ mv' = [mv EXCEPT !.pc = "error"]
  /\ UNCHANGED <<store, leases, cfg, inv, tasks, discVars, sourceFiles, cmr, queueVars, pdrVars, versionVars, urlFile, urlOut>>

\* updateMetadata: publish posts the document to CMR
Publish ==
  /\ mv.pc = "publish"
  /\ cmr' = Append(cmr, mv.xml)
  /\ mv' = [mv EXCEPT !.pc = "post"]
  /\ UNCHANGED <<store, leases, cfg, inv, tasks, faults, discVars, sourceFiles, queueVars, pdrVars, versionVars, urlFile, urlOut>>

\* updateMetadata: publish fails and the error is thrown
PublishFails ==
  /\ mv.pc = "publish"
  /\ faults < MaxFaults
  /\ faults' = faults + 1
  /\ mv' = [mv EXCEPT !.pc = "error"]
  /\ UNCHANGED <<store, leases, cfg, inv, tasks, discVars, sourceFiles, cmr, queueVars, pdrVars, versionVars, urlFile, urlOut>>

\* updateMetadata: postS3Object writes the document to
\* (cmrFile.bucket, cmrFile.filepath)
PostS3Object ==
  /\ mv.pc = "post"
  /\ LET cmrFile == xmlFile(sourceFiles)[1]
     IN store' = (buildS3Uri(cmrFile.bucket, cmrFile.filepath) :> mv.xml) @@ store
  /\ mv' = [mv EXCEPT !.pc = "done"]
  /\ UNCHANGED <<leases, cfg, inv, tasks, faults, discVars, sourceFiles, cmr, queueVars, pdrVars, versionVars, urlFile, urlOut>>

\* updateMetadata: postS3Object fails
PostS3ObjectFails ==
  /\ mv.pc = "post"
  /\ faults < MaxFaults
  /\ faults' = faults + 1
  /\ mv' = [mv EXCEPT !.pc = "error"]
  /\ UNCHANGED <<store, leases, cfg, inv, tasks, discVars, sourceFiles, cmr, queueVars, pdrVars, versionVars, urlFile, urlOut>>

\* a granule that ingest staged, before its first move
InitMove ==
  /\ \E names \in MoveNames, withPath \in BOOLEAN :
       /\ sourceFiles = [j \in 1..Len(names) |-> StagedFile(names[j], withPath)]
       /\ store = [k \in {buildS3Uri(DownloadBucket, urljoin(StagedDir, names[j])) :
                            j \in 1..Len(names)} |-> Body(k[3])]
  /\ leases = {}
  /\ cfg = [duplicateHandling |-> "replace", leadingSlash |-> FALSE]
  /\ inv = [i \in Invs |-> [InitInv(<< >>) EXCEPT !.pc = "off"]]
  /\ tasks = [i \in Invs |-> << >>]
  /\ faults = 0
  /\ coll = DefaultCollection
  /\ listing = << >>
  /\ disc = NoDiscover
  /\ mv = [NoMove EXCEPT !.pc = "idle"]
  /\ cmr = << >>
  /\ QueueOff
  /\ PdrOff
  /\ VersionOff
  /\ urlFile = << >>
  /\ urlOut = NoUrl

NextMove ==
  \/ \E destinations \in DestinationLists, published \in BOOLEAN :
       MoveStart(destinations, published)
  \/ \E j \in MoveIndex :
       \/ MoveCopy(j)
       \/ MoveCopyFails(j)
       \/ MoveDelete(j)
       \/ MoveDeleteFails(j)
  \/ UpdateMetadata
  \/ UpdateMetadataFails
  \/ Publish
  \/ PublishFails
  \/ PostS3Object
  \/ PostS3ObjectFails

SpecMove == InitMove /\ [][NextMove]_vars

\* ================================================================ ingest
\* One sync-granule invocation over granules as a PDR or a discovery may
\* list them.  g1: an hdf file with an embedded CKSUM checksum and an .md5
\* sidecar as well, and a browse file with its sidecar, listed before or
\* after it.  g2: a browse file of the same name with no checksum, and a
\* text file whose name holds '.md5' before its extension.
BrowseName == <<"browse", "jpg">>
IngestFile(n, type, value, bucket) ==
  [InputFile(n, type, value) EXCEPT !.bucket = bucket]
IngestGranules(bucket) ==
  { [granuleId |-> "g1",
     files |-> << IngestFile(HdfName("g1"), "CKSUM", Cksum(11), bucket),
                  IngestFile(HdfName("g1") \o <<"md5">>, Null, 0, bucket),
                  IngestFile(BrowseName, Null, 0, bucket),
                  IngestFile(BrowseName \o <<"md5">>, Null, 0, bucket) >>],
    [granuleId |-> "g1",
     files |-> << IngestFile(HdfName("g1"), "CKSUM", Cksum(11), bucket),
                  IngestFile(HdfName("g1") \o <<"md5">>, Null, 0, bucket),
                  IngestFile(BrowseName \o <<"md5">>, Null, 0, bucket),
                  IngestFile(BrowseName, Null, 0, bucket) >>],
    [granuleId |-> "g2",
     files |-> << IngestFile(BrowseName, Null, 0, bucket),
                  IngestFile(<<"g2", "md5", "txt">>, Null, 0, bucket) >>] }

\* The staging directory of the first ingest() call, empty or holding the
\* files of an earlier run
FirstStagingDir == <<"file-staging", "stack", "coll">>
StagedBefore ==
  { << >>,
    (<<DownloadBucket, FirstStagingDir, HdfName("g1")>> :> 22)
      @@ (<<DownloadBucket, FirstStagingDir, BrowseName>> :> 11) }

InitIngest ==
  /\ store \in StagedBefore
  /\ leases = {}
  /\ cfg \in [duplicateHandling : {"replace", "skip", "version"},
               leadingSlash : {FALSE}]
  \* file.bucket of the input files: none (a PDR), or the bucket that
  \* discovery has set
  /\ \E bucket \in {Null, DownloadBucket, "b-protected"} :
       \E gl \in UNION { [1..n -> IngestGranules(bucket)] : n \in 1..MaxGranules } :
         inv = [i \in Invs |->
                  IF i = "A" THEN InitInv(gl)
                  ELSE [InitInv(<< >>) EXCEPT !.pc = "off"]]
  /\ tasks = [i \in Invs |-> << >>]
  /\ faults = 0
  /\ coll = DefaultCollection
  /\ listing = << >>
  /\ disc = NoDiscover
  /\ sourceFiles = << >>
  /\ mv = NoMove
  /\ cmr = << >>
  /\ QueueOff
  /\ PdrOff
  /\ VersionOff
  /\ urlFile = << >>
  /\ urlOut = NoUrl

NextIngest ==
  \/ \E i \in Invs :
       \/ ProceedAcquire(i)
       \/ CatchRemoveLock(i)
       \/ FinalRemoveLock(i)
       \/ \E j \in 1..4 :
            \/ IngestFileExists(i, j)
            \/ IngestFileSync(i, j)
            \/ IngestFileSyncFails(i, j)
            \/ IngestFileValidate(i, j)
  \/ \E b \in BucketNames :
       \/ GetBucketVersioning(b)
       \/ PutBucketVersioning(b)

SpecIngest == InitIngest /\ [][NextIngest]_vars

\* ================================================================ queue
MaxMessages == 3     \* publish calls in one run

PdrNames == {"pdr1"}

\* getMessageFromTemplate: JSON.parse of the template object, a fresh
\* message per call
getMessageFromTemplate == template

\* enqueueParsePdrMessage: the template with provider, collection and
\* payload.pdr set
enqueueParsePdrMessage(p) ==
  [cumulus_meta |-> getMessageFromTemplate.cumulus_meta,
   meta |-> [provider |-> ProviderId, collection |-> "coll"],
   payload |-> [pdr |-> p]]

\* enqueueGranuleIngestMessage: the template with payload.granules,
\* provider and collection set
enqueueGranuleIngestMessage(g) ==
  [cumulus_meta |-> getMessageFromTemplate.cumulus_meta,
   meta |-> [provider |-> ProviderId, collection |-> "coll"],
   payload |-> [granules |-> << [granuleId |-> g, files |-> << >>] >>]]

\* queueWorkflowMessage: the template with provider, payload and
\* collection set and cumulus_meta.execution_name = uuidv4()
queueWorkflowMessage(payload, k) ==
  [cumulus_meta |-> [getMessageFromTemplate.cumulus_meta
                       EXCEPT !.execution_name = uuidv4(k)],
   meta |-> [provider |-> ProviderId, collection |-> "coll"],
   payload |-> payload]

\* sendSQSMessage(queueUrl, message) resolves
EnqueueParsePdr(p) ==
  /\ Len(queue) < MaxMessages
  /\ queue' = Append(queue, enqueueParsePdrMessage(p))
  /\ UNCHANGED <<store, leases, cfg, inv, tasks, faults, discVars, moveVars,
                 template, uuids, pdrVars, versionVars, urlFile, urlOut>>

EnqueueGranuleIngest(g) ==
  /\ Len(queue) < MaxMessages
  /\ queue' = Append(queue, enqueueGranuleIngestMessage(g))
  /\ UNCHANGED <<store, leases, cfg, inv, tasks, faults, discVars, moveVars,
                 template, uuids, pdrVars, versionVars, urlFile, urlOut>>

QueueWorkflow(g) ==
  /\ Len(queue) < MaxMessages
  /\ uuids < MaxMessages
  /\ uuids' = uuids + 1
  /\ queue' = Append(queue, queueWorkflowMessage([granuleId |-> g], uuids + 1))
  /\ UNCHANGED <<store, leases, cfg, inv, tasks, faults, discVars, moveVars,
                 template, pdrVars, versionVars, urlFile, urlOut>>

\* queueWorkflowMessage whose sendSQSMessage rejects: the name is drawn and
\* nothing is sent.  (A publish call whose template fetch rejects, and an
\* enqueue call whose send rejects, leave every variable as it is.)
QueueWorkflowFails ==
  /\ uuids < MaxMessages
  /\ uuids' = uuids + 1
  /\ UNCHANGED <<store, leases, cfg, inv, tasks, faults, discVars, moveVars,
                 template, queue, pdrVars, versionVars, urlFile, urlOut>>

InitQueue ==
  /\ store = << >>
  /\ leases = {}
  /\ cfg = [duplicateHandling |-> "replace", leadingSlash |-> FALSE]
  /\ inv = [i \in Invs |-> [InitInv(<< >>) EXCEPT !.pc = "off"]]
  /\ tasks = [i \in Invs |-> << >>]
  /\ faults = 0
  /\ coll = DefaultCollection
  /\ listing = << >>
  /\ disc = NoDiscover
  /\ sourceFiles = << >>
  /\ mv = NoMove
  /\ cmr = << >>
  /\ template \in Templates
  /\ queue = << >>
  /\ uuids = 0
  /\ PdrOff
  /\ VersionOff
  /\ urlFile = << >>
  /\ urlOut = NoUrl

NextQueue ==
  \/ \E p \in PdrNames : EnqueueParsePdr(p)
  \/ \E g \in GranuleIds : EnqueueGranuleIngest(g)
  \/ \E g \in GranuleIds : QueueWorkflow(g)
  \/ QueueWorkflowFails

SpecQueue == InitQueue /\ [][NextQueue]_vars

\* ================================================================ parse-pdr
MaxGroups == 2       \* file groups in one PDR

\* A FILE_SPEC of a PDR: FILE_ID and FILE_SIZE.  The FILE_ID value is a file
\* name, or << >> for a key with an empty value; a FILE_SPEC may have no
\* FILE_ID key at all.
EmptyValue == << >>
FileSpec(id, size) == [FILE_ID |-> id, FILE_SIZE |-> size]
FileSpecWithoutId(size) == [FILE_SIZE |-> size]
HasFileId(spec) == "FILE_ID" \in DOMAIN spec

\* The file groups a provider may write for granule g: the data file, whose
\* FILE_ID may be there, empty or missing, and then possibly a browse file
DataSpecs(g) ==
  { FileSpec(id, size) : id \in {HdfName(g), EmptyValue}, size \in {3, 5} }
    \cup { FileSpecWithoutId(size) : size \in {3, 5} }
BrowseSpecs(g) == { FileSpec(JpgName(g), 4), FileSpecWithoutId(4) }
FileGroups ==
  UNION { { [DATA_TYPE |-> "MOD", specs |-> <<d>>] : d \in DataSpecs(g) }
            \cup { [DATA_TYPE |-> "MOD", specs |-> <<d, b>>] :
                     d \in DataSpecs(g), b \in BrowseSpecs(g) } :
          g \in GranuleIds }

\* config.granuleIdFilter: none, '^g1$', '^g2$' or '^g'
GranuleIdFilters == {Null, "g1", "g2", "g"}
FilterMatch(id, filter) == filter = "g" \/ id = filter

Pdrs ==
  [groups : UNION { [1..n -> FileGroups] : n \in 0..MaxGroups },
   granuleIdFilter : GranuleIdFilters]

\* a required key of a FILE_SPEC is missing or has an empty value
InvalidSpec(spec) == IF HasFileId(spec) THEN spec.FILE_ID = EmptyValue ELSE TRUE
InvalidPdr(p) ==
  \E j \in 1..Len(p.groups) :
    \E q \in 1..Len(p.groups[j].specs) : InvalidSpec(p.groups[j].specs[q])

RECURSIVE SumSeq(_)
SumSeq(ns) == IF ns = << >> THEN 0 ELSE Head(ns) + SumSeq(Tail(ns))

\* the File of a FILE_SPEC and the Granule of a file group; the collection
\* of the group's data type extracts the granuleId from the file name
PdrFile(spec) == [name |-> spec.FILE_ID, fileSize |-> spec.FILE_SIZE]
PdrGranule(group) ==
  [granuleId |-> granuleIdMatch(group.specs[1].FILE_ID, "stem"),
   dataType |-> group.DATA_TYPE,
   granuleSize |-> SumSeq([q \in 1..Len(group.specs) |-> group.specs[q].FILE_SIZE]),
   files |-> [q \in 1..Len(group.specs) |-> PdrFile(group.specs[q])]]

Retained(granule, filter) ==
  filter = Null \/ FilterMatch(granule.granuleId, filter)

PdrThrown(error) ==
  [pc |-> "thrown", error |-> error, granules |-> << >>,
   granulesCount |-> 0, filesCount |-> 0, totalSize |-> 0]
PdrReturned(granules) ==
  [pc |-> "returned", error |-> Null, granules |-> granules,
   granulesCount |-> Len(granules),
   filesCount |-> SumSeq([j \in 1..Len(granules) |-> Len(granules[j].files)]),
   totalSize |-> SumSeq([j \in 1..Len(granules) |-> granules[j].granuleSize])]

\* A parsePdr that leaves out the file groups it cannot read
parsePdrSkipInvalid(p) ==
  LET valid == SelectSeq(p.groups,
                 LAMBDA group : \A q \in 1..Len(group.specs) : ~InvalidSpec(group.specs[q]))
  IN PdrReturned(SelectSeq([j \in 1..Len(valid) |-> PdrGranule(valid[j])],
                           LAMBDA g : Retained(g, p.granuleIdFilter)))

\* A parsePdr that tests the filter against the data type, not the granuleId
parsePdrFilterDataType(p) ==
  IF InvalidPdr(p) THEN PdrThrown("InvalidPdrError")
  ELSE PdrReturned(SelectSeq([j \in 1..Len(p.groups) |-> PdrGranule(p.groups[j])],
                             LAMBDA g : Retained([granuleId |-> g.dataType],
                                                 p.granuleIdFilter)))

\* A parsePdr that counts before it filters
parsePdrRawCounters(p) ==
  IF InvalidPdr(p) THEN PdrThrown("InvalidPdrError")
  ELSE LET all == [j \in 1..Len(p.groups) |-> PdrGranule(p.groups[j])]
       IN [PdrReturned(all) EXCEPT
             !.granules = SelectSeq(all, LAMBDA g : Retained(g, p.granuleIdFilter))]

\* parsePdr: the manifest of the PDR, or InvalidPdrError
parsePdr(p) ==
  IF InvalidPdr(p) THEN PdrThrown("InvalidPdrError")
  ELSE PdrReturned(SelectSeq([j \in 1..Len(p.groups) |-> PdrGranule(p.groups[j])],
                             LAMBDA g : Retained(g, p.granuleIdFilter)))

ParsePdr ==
  /\ pdrOut.pc = "idle"
  /\ ~InvalidPdr(pdr)
  /\ pdrOut' = parsePdr(pdr)
  /\ UNCHANGED <<store, leases, cfg, inv, tasks, faults, discVars, moveVars,
                 queueVars, pdr, versionVars, urlFile, urlOut>>

ParsePdrThrows ==
  /\ pdrOut.pc = "idle"
  /\ InvalidPdr(pdr)
  /\ pdrOut' = parsePdr(pdr)
  /\ UNCHANGED <<store, leases, cfg, inv, tasks, faults, discVars, moveVars,
                 queueVars, pdr, versionVars, urlFile, urlOut>>

InitPdr ==
  /\ store = << >>
  /\ leases = {}
  /\ cfg = [duplicateHandling |-> "replace", leadingSlash |-> FALSE]
  /\ inv = [i \in Invs |-> [InitInv(<< >>) EXCEPT !.pc = "off"]]
  /\ tasks = [i \in Invs |-> << >>]
  /\ faults = 0
  /\ coll = DefaultCollection
  /\ listing = << >>
  /\ disc = NoDiscover
  /\ sourceFiles = << >>
  /\ mv = NoMove
  /\ cmr = << >>
  /\ QueueOff
  /\ pdr \in Pdrs
  /\ pdrOut = [NoParse EXCEPT !.pc = "idle"]
  /\ VersionOff
  /\ urlFile = << >>
  /\ urlOut = NoUrl

NextPdr ==
  \/ ParsePdr
  \/ ParsePdrThrows

SpecPdr == InitPdr /\ [][NextPdr]_vars

\* ---------------------------------------------------------------- url_path
\* The file rules a collection may list, and the rule lists of a collection
UrlRules ==
  { FileRule(Regex("hdf", TRUE), "protected", "hdf-path"),
    FileRule(Regex("jpg", FALSE), "public", ""),
    FileRule(Regex("jpg", TRUE), "public", "jpg-path"),
    FileRule(Regex(".*", FALSE), "internal", "any-path") }
UrlCollections ==
  [granuleIdExtraction : {"stem"},
   files : UNION { [1..m -> UrlRules] : m \in 0..MaxRules },
   url_path : {"coll-path", ""}]

\* Granule.findCollectionFileConfigForFile: the first rule whose regex
\* matches, undefined when there is none
findCollectionFileConfigForFile(n) ==
  coll.files[CHOOSE q \in 1..Len(coll.files) :
               /\ Match(n, coll.files[q].regex)
               /\ \A q2 \in 1..(q - 1) : ~Match(n, coll.files[q2].regex)]

\* Granule.addUrlPathToFile: the url_path it sets on the copy of the file
addUrlPathToFile(n) ==
  LET foundFileConfigUrlPath ==
        IF \E q \in 1..Len(coll.files) : Match(n, coll.files[q].regex)
        THEN findCollectionFileConfigForFile(n).url_path ELSE ""
  IN OrElse(foundFileConfigUrlPath, OrElse(coll.url_path, ""))

\* a file of the collection is taken up
UrlFile(n) ==
  /\ urlOut.pc \in {"idle", "file"}
  /\ urlFile' = n
  /\ urlOut' = [NoUrl EXCEPT !.pc = "file"]
  /\ UNCHANGED <<store, leases, cfg, inv, tasks, faults, discVars, moveVars, queueVars, pdrVars, versionVars>>

\* ingestFile stages the file and sets file.url_path = this.getUrlPath(file)
UrlGetUrlPath ==
  /\ urlOut.pc = "file"
  /\ urlOut.getUrlPath = Null
  /\ urlOut' = [urlOut EXCEPT !.getUrlPath = getUrlPath(urlFile)]
  /\ UNCHANGED <<store, leases, cfg, inv, tasks, faults, discVars, moveVars, queueVars, pdrVars, versionVars, urlFile>>

\* addUrlPathToFile(file)
UrlAddUrlPathToFile ==
  /\ urlOut.pc = "file"
  /\ urlOut.addUrlPathToFile = Null
  /\ urlOut' = [urlOut EXCEPT !.addUrlPathToFile = addUrlPathToFile(urlFile)]
  /\ UNCHANGED <<store, leases, cfg, inv, tasks, faults, discVars, moveVars, queueVars, pdrVars, versionVars, urlFile>>

\* Discover.setGranuleInfo(file), which discover() calls for the files that
\* have a file type config
UrlSetGranuleInfo ==
  /\ urlOut.pc = "file"
  /\ urlOut.setGranuleInfo = Null
  /\ HasFileTypeConfig(urlFile)
  /\ urlOut' = [urlOut EXCEPT !.setGranuleInfo = setGranuleInfo(urlFile).url_path]
  /\ UNCHANGED <<store, leases, cfg, inv, tasks, faults, discVars, moveVars, queueVars, pdrVars, versionVars, urlFile>>

InitUrlPath ==
  /\ store = << >>
  /\ leases = {}
  /\ cfg = [duplicateHandling |-> "replace", leadingSlash |-> FALSE]
  /\ inv = [i \in Invs |-> [InitInv(<< >>) EXCEPT !.pc = "off"]]
  /\ tasks = [i \in Invs |-> << >>]
  /\ faults = 0
  /\ coll \in UrlCollections
  /\ listing = << >>
  /\ disc = NoDiscover
  /\ sourceFiles = << >>
  /\ mv = NoMove
  /\ cmr = << >>
  /\ QueueOff
  /\ PdrOff
  /\ VersionOff
  /\ urlFile = << >>
  /\ urlOut = [NoUrl EXCEPT !.pc = "idle"]

NextUrlPath ==
  \/ \E n \in { HdfName("g1"), JpgName("g1"), Md5Name("g1"), <<"readme", "txt">> } :
       UrlFile(n)
  \/ UrlGetUrlPath
  \/ UrlAddUrlPathToFile
  \/ UrlSetGranuleInfo

SpecUrlPath == InitUrlPath /\ [][NextUrlPath]_vars

\* ================================================================ claims
\* invocation i is past lock.proceed and ingesting granule g
Downloading(i, g) ==
  /\ inv[i].pc = "ingesting"
  /\ inv[i].granules[inv[i].k].granuleId = g

Embedded(file) == file.checksumType # Null /\ file.checksumValue # 0

\* the names of the files of a granule that are no sidecars, in input order
DataFileNames(granule) ==
  LET keep == SelectSeq(granule.files, LAMBDA f : ~IsChecksumName(f.name))
  IN [j \in 1..Len(keep) |-> keep[j].name]

\* C1: two download() invocations for the same provider are never both past
\* lock acquisition and ingesting the same granuleId at the same time.
C1_Serialized ==
  \A i1, i2 \in Invs : \A g \in GranuleIds :
    i1 # i2 => ~(Downloading(i1, g) /\ Downloading(i2, g))

\* C2: once download() has returned or thrown, no lease that this
\* invocation created is left in the lease store.
C2_LeaseReleasedOnExit ==
  \A i \in Invs :
    inv[i].pc \in {"done", "failed"} => ~(\E l \in leases : l[3] = i)

\* C3: when ingestFile raises InvalidChecksum for a file with an embedded
\* checksum, the mismatching content is not at the file's staging key.
C3_MismatchNotStaged ==
  \A i \in Invs : \A j \in DOMAIN tasks[i] :
    LET t == tasks[i][j]
        key == FullKey(inv[i], t.file.name)
    IN (Embedded(t.file) /\ t.pc = "failed" /\ t.err = "InvalidChecksum")
         => ~(key \in DOMAIN store
              /\ checksumS3Objects(t.file.checksumType, key) # t.file.checksumValue)

\* C4: with duplicateHandling = 'skip', a file whose staged object exists
\* when ingestFile looks for it is neither fetched nor written: ingestFile
\* does not go on to sync it.
C4_SkipLeavesExisting ==
  [][\A i \in Invs : \A j \in DOMAIN tasks[i] :
       (/\ cfg.duplicateHandling = "skip"
        /\ tasks[i][j].pc = "exists"
        /\ FullKey(inv[i], tasks[i][j].file.name) \in DOMAIN store)
       => ~(j \in DOMAIN tasks'[i] /\ tasks'[i][j].pc = "sync")]_vars

\* C5: after ingest() of a granule has failed, no other file of that
\* granule is fetched from the provider and written to the store.
C5_FailFast ==
  [][\A i \in Invs : \A j \in DOMAIN tasks[i] :
       inv[i].pc \in {"catch", "failed"} => ~IngestFileSync(i, j)]_vars

\* C6: a failed ingest never yields a Granule record: syncGranule rejects
\* with the error, and what it resolves with holds, for every granule of
\* the input, all of its files that are no sidecars.
C6_NoPartialRecord ==
  \A i \in Invs :
    LET r == inv[i]
    IN /\ (\E j \in DOMAIN tasks[i] : tasks[i][j].pc = "failed")
            => r.pc \in {"catch", "failed"} /\ r.result.status # "ok"
       /\ r.pc \in {"catch", "failed"} => r.result.granules = << >>
       /\ r.pc = "failed" => r.result.status = "error"
       /\ r.result.status = "ok" =>
            /\ Len(r.result.granules) = Len(r.granules)
            /\ \A k \in 1..Len(r.granules) :
                 /\ r.result.granules[k].granuleId = r.granules[k].granuleId
                 /\ [j \in 1..Len(r.result.granules[k].files) |->
                       r.result.granules[k].files[j].name]
                      = DataFileNames(r.granules[k])

\* C6 witness: the second granule of a list failed after the first one was
\* ingested, and syncGranule rejected.
C6_Witness ==
  \E i \in Invs :
    /\ inv[i].pc = "failed"
    /\ inv[i].k = 2
    /\ Len(inv[i].updatedGranules) = 1
    /\ \E j \in DOMAIN tasks[i] : tasks[i][j].pc = "failed"
    /\ inv[i].result.status = "error"

\* granuleIdExtraction applied to the name of a discovered file
ExtractedId(n) == granuleIdMatch(n, coll.granuleIdExtraction)

\* the <<granule index, file index>> pairs of the files discover() returned
ReturnedFiles ==
  { <<k, x>> \in (1..Len(disc.result)) \X (1..Len(ProviderNames)) :
      x <= Len(disc.result[k].files) }

\* C7: discover() puts two files into the same Granule exactly when the
\* granuleIdExtraction gives the same id for their names; the id of a
\* Granule is the id extracted from each of its files, no granuleId is
\* returned twice and no Granule is returned without files.
C7_GroupedByGranuleId ==
  disc.pc = "done" =>
    /\ \A k \in 1..Len(disc.result) :
         /\ disc.result[k].files # << >>
         /\ \A k2 \in 1..Len(disc.result) :
              k # k2 => disc.result[k].granuleId # disc.result[k2].granuleId
    /\ \A a, b \in ReturnedFiles :
         /\ ExtractedId(disc.result[a[1]].files[a[2]].name) = disc.result[a[1]].granuleId
         /\ (a[1] = b[1]) <=>
              (ExtractedId(disc.result[a[1]].files[a[2]].name)
                 = ExtractedId(disc.result[b[1]].files[b[2]].name))

\* C7 witness: discover() returned two files of one granule and a file of
\* another granule.
C7_Witness ==
  /\ disc.pc = "done"
  /\ \E a, b, c \in ReturnedFiles :
       a[1] = b[1] /\ a[2] # b[2] /\ c[1] # a[1]

\* C8: when sync-granule has staged the granules that a discover() pass
\* returned, the next discover() on the unchanged listing returns nothing.
C8_RediscoveryEmpty ==
  (disc.pass = 2 /\ disc.pc = "done" /\ inv["A"].result.status = "ok")
    => disc.result = << >>

\* C9: discover() never fails: a failing listing or existence check only
\* leaves files out of the list that it returns.
C9_DiscoverNeverFails == disc.pc # "error"

\* the rules of the call's destination list that the name of file j matches
MatchingRules(j) ==
  {d \in 1..Len(mv.destinations) :
     Match(sourceFiles[j].name, mv.destinations[d].regex)}

\* the first of them in list order
FirstRule(j) ==
  mv.destinations[CHOOSE d \in MatchingRules(j) :
                    \A e \in 1..(d - 1) : e \notin MatchingRules(j)]

\* (rule.bucket, rule.filepath/name) for the first matching rule of file j
RuleTarget(j) ==
  [Bucket |-> FirstRule(j).bucket,
   Key |-> <<FirstRule(j).filepath, sourceFiles[j].name>>]

\* file j is at the target of its rule: the object is there and not at the
\* source key, and the File record names the target
MovedByRule(j) ==
  LET t == RuleTarget(j)
      at == <<t.Bucket, t.Key[1], t.Key[2]>>
      from == <<mv.reqs[j].source.Bucket, mv.reqs[j].source.Key[1],
                mv.reqs[j].source.Key[2]>>
  IN /\ at \in DOMAIN store
     /\ sourceFiles[j].name # CmrName("g1") => store[at] = Body(sourceFiles[j].name)
     /\ from \notin DOMAIN store
     /\ sourceFiles[j].bucket = t.Bucket
     /\ sourceFiles[j].filepath = t.Key
     /\ sourceFiles[j].filename = <<t.Bucket, t.Key[1], t.Key[2]>>

\* C10: after a successful moveGranuleFiles call, every file whose
\* name matches at least one destination rule has been moved by the first
\* matching rule: its object is at (rule.bucket, rule.filepath/name) and no
\* longer at its source key, and its File record has the rule's bucket,
\* filepath and the S3 URI built from them.
C10_MovedByFirstRule ==
  mv.pc = "done" =>
    \A j \in 1..Len(sourceFiles) : MatchingRules(j) # {} => MovedByRule(j)

\* no rule of the destination list matches the name
Unmatched(n, destinations) ==
  \A d \in 1..Len(destinations) : ~Match(n, destinations[d].regex)

\* the object that the filename of a File record addresses
ObjectOf(file) == <<file.filename[1], file.filename[2], file.filename[3]>>

\* a step of a moveGranuleFiles call leaves the object of file j alone: it
\* is neither created nor deleted, and a data file keeps its body
ObjectUntouched(j) ==
  LET at == ObjectOf(sourceFiles[j])
  IN /\ sourceFiles'[j].filename = sourceFiles[j].filename
     /\ at \in DOMAIN store' <=> at \in DOMAIN store
     /\ (at \in DOMAIN store /\ sourceFiles[j].name # CmrName("g1"))
          => store'[at] = store[at]
     /\ \A k \in DOMAIN store' \ DOMAIN store : k[3] # sourceFiles[j].name

\* C11: a file that matches no destination rule is left untouched by
\* moveGranuleFiles: no step of the call copies or deletes its object, and
\* the bucket and filepath of its File record stay what they were before
\* the call.
C11_UnmatchedUntouched ==
  [][\A j \in 1..Len(sourceFiles) :
       (mv'.pc # "idle" /\ Unmatched(sourceFiles[j].name, mv'.destinations))
         => /\ ObjectUntouched(j)
            /\ sourceFiles'[j].bucket = sourceFiles[j].bucket
            /\ sourceFiles'[j].filepath = sourceFiles[j].filepath]_vars

\* C11, amended: a file that matches no destination rule is left in place
\* by moveGranuleFiles: no step of the call copies or deletes its object,
\* the bucket of its File record stays what it was, and its filepath stays
\* what it was if it was set and becomes the key of its filename if it was
\* not set.
C11_UnmatchedLeftInPlace ==
  [][\A j \in 1..Len(sourceFiles) :
       (mv'.pc # "idle" /\ Unmatched(sourceFiles[j].name, mv'.destinations))
         => /\ ObjectUntouched(j)
            /\ sourceFiles'[j].bucket = sourceFiles[j].bucket
            /\ sourceFiles[j].filepath # << << >>, << >> >>
                 => sourceFiles'[j].filepath = sourceFiles[j].filepath
            /\ sourceFiles'[j].filepath
                 = <<sourceFiles[j].filename[2], sourceFiles[j].filename[3]>>]_vars

\* C11 witness: a successful first call moved one file and skipped another
\* one, which no rule matches and whose object is still where it was.
C11_Witness ==
  /\ mv.pc = "done"
  /\ mv.calls = 1
  /\ \E j, j2 \in 1..Len(sourceFiles) :
       /\ Unmatched(sourceFiles[j].name, mv.destinations)
       /\ mv.reqs[j].pc = "skip"
       /\ sourceFiles[j].bucket = DownloadBucket
       /\ ObjectOf(sourceFiles[j]) \in DOMAIN store
       /\ mv.reqs[j2].pc = "done"

\* the body of file j is stored at the location loc
HoldsContent(j, loc) ==
  LET at == <<loc.Bucket, loc.Key[1], loc.Key[2]>>
  IN /\ at \in DOMAIN store
     /\ sourceFiles[j].name # CmrName("g1") => store[at] = Body(sourceFiles[j].name)

\* C12: at every moment of a moveGranuleFiles call, whatever step fails,
\* the content of each file is at its source or at its target; a file whose
\* move failed still has its source object and an unchanged File record;
\* and every File record points at a location where an object exists.
C12_ContentNeverLost ==
  \A j \in 1..Len(mv.reqs) :
    /\ HoldsContent(j, mv.reqs[j].source) \/ HoldsContent(j, mv.reqs[j].target)
    /\ mv.reqs[j].pc = "failed" =>
         /\ HoldsContent(j, mv.reqs[j].source)
         /\ sourceFiles[j].filename
              = <<mv.reqs[j].source.Bucket, mv.reqs[j].source.Key[1],
                  mv.reqs[j].source.Key[2]>>
    /\ ObjectOf(sourceFiles[j]) \in DOMAIN store

\* the keys at which a step that is no step of a file move replaces a
\* stored metadata document by another
Overwritten ==
  IF mv'.reqs # mv.reqs THEN {}
  ELSE {k \in DOMAIN store \cap DOMAIN store' :
          k[3] = CmrName("g1") /\ store'[k] # store[k]}

\* C13: with publish set, updateMetadata publishes the rewritten metadata
\* document to CMR before it writes it to storage; when publish fails,
\* moveGranuleFiles fails with the error and the stored metadata document
\* is not overwritten.  (A copy made while the files are moved may replace
\* an older copy of the document at its target: that is the move of the
\* file, not the write of the rewritten document.)
C13_PublishBeforeWrite ==
  [][/\ \A k \in Overwritten :
          /\ mv.pc = "post"
          /\ mv.published => (cmr # << >> /\ cmr[Len(cmr)] = store'[k])
     /\ mv.pc = "publish" =>
          /\ mv'.pc \in {"post", "error"}
          /\ mv'.pc = "post" => cmr' = Append(cmr, mv.xml)
          /\ mv'.pc = "error" => store' = store
     /\ mv.pc = "error" => Overwritten = {}]_vars

\* C13 witness: a call with publish set has published a metadata document
\* with new URLs and then written it over the stored one.
C13_Witness ==
  /\ mv.pc = "done"
  /\ mv.published
  /\ cmr # << >>
  /\ cmr[Len(cmr)].OnlineAccessURLs # << >>
  /\ \E j \in 1..Len(sourceFiles) :
       /\ sourceFiles[j].name = CmrName("g1")
       /\ ObjectOf(sourceFiles[j]) \in DOMAIN store
       /\ store[ObjectOf(sourceFiles[j])] = cmr[Len(cmr)]

\* the type of the configured bucket of that name
BucketType(name) ==
  Buckets[CHOOSE b \in DOMAIN Buckets : Buckets[b].name = name].type

\* the files of the granule in a bucket of that type, by position
FilesIn(type) ==
  {j \in 1..Len(sourceFiles) : BucketType(sourceFiles[j].bucket) = type}

\* the online-access URLs that a metadata document has to list for the
\* granule's files where they are now
ExpectedUrls ==
  { [host |-> DistEndpoint, bucket |-> sourceFiles[j].bucket,
     filepath |-> sourceFiles[j].filepath] : j \in FilesIn("protected") }
  \cup
  { [host |-> <<sourceFiles[j].bucket, "s3", "amazonaws", "com">>, bucket |-> "",
     filepath |-> sourceFiles[j].filepath] : j \in FilesIn("public") }

UrlsOf(doc) == {doc.OnlineAccessURLs[u] : u \in 1..Len(doc.OnlineAccessURLs)}

\* C14: the URL list of the rewritten metadata document holds, for every
\* file of the granule in a protected bucket, distributionEndpoint/bucket/
\* filepath, for every file in a public bucket, https://<bucket>.s3.
\* amazonaws.com/<filepath>, and nothing else, with the bucket and filepath
\* that the files have after the move; this is the document that is
\* published and stored.
C14_OnlineAccessUrls ==
  /\ mv.pc \in {"publish", "post"} =>
       /\ UrlsOf(mv.xml) = ExpectedUrls
       /\ Len(mv.xml.OnlineAccessURLs)
            = Cardinality(FilesIn("protected")) + Cardinality(FilesIn("public"))
       /\ \A j \in 1..Len(sourceFiles) :
            sourceFiles[j].filepath = <<sourceFiles[j].filename[2],
                                        sourceFiles[j].filename[3]>>
  /\ (mv.pc = "done" /\ Len(xmlFile(sourceFiles)) = 1) =>
       /\ ObjectOf(xmlFile(sourceFiles)[1]) \in DOMAIN store
       /\ UrlsOf(store[ObjectOf(xmlFile(sourceFiles)[1])]) = ExpectedUrls
       /\ mv.published => (cmr # << >> /\ UrlsOf(cmr[Len(cmr)]) = ExpectedUrls)

\* C14 witness: the stored metadata document of a moved granule lists a
\* URL through the distribution endpoint for the file in the protected
\* bucket and a direct URL for the file in the public bucket.
C14_Witness ==
  /\ mv.pc = "done"
  /\ Len(xmlFile(sourceFiles)) = 1
  /\ FilesIn("protected") # {}
  /\ FilesIn("public") # {}
  /\ ObjectOf(xmlFile(sourceFiles)[1]) \in DOMAIN store
  /\ Cardinality(UrlsOf(store[ObjectOf(xmlFile(sourceFiles)[1])])) = 2

\* the execution name of the a-th message sent
ExecutionName(a) == queue[a].cumulus_meta.execution_name

\* C15: every message sent to the queue carries a name that uuidv4()
\* generated for it, and no two messages sent carry the same name.
C15_UniqueExecutionNames ==
  /\ \A a \in 1..Len(queue) : ExecutionName(a)[1] = "uuid"
  /\ \A a, b \in 1..Len(queue) : a # b => ExecutionName(a) # ExecutionName(b)

\* a FILE_SPEC of the group has no FILE_ID key or an empty FILE_ID value
FileIdAbsentOrEmpty(group) ==
  \E q \in 1..Len(group.specs) :
    IF "FILE_ID" \in DOMAIN group.specs[q]
      THEN Len(group.specs[q].FILE_ID) = 0
      ELSE TRUE
ParseDone == pdrOut.pc \in {"returned", "thrown"}

\* C16: when a file group of the PDR has its FILE_ID absent or empty,
\* parsePdr ends with InvalidPdrError and returns no granule, whatever the
\* other file groups hold.
C16_InvalidPdrError ==
  (ParseDone /\ \E j \in 1..Len(pdr.groups) : FileIdAbsentOrEmpty(pdr.groups[j]))
    => /\ pdrOut.pc = "thrown"
       /\ pdrOut.error = "InvalidPdrError"
       /\ pdrOut.granules = << >>

\* parsePdr has thrown on a PDR with a well-formed group and a group
\* without FILE_ID
C16_Witness ==
  /\ pdrOut.pc = "thrown"
  /\ \E j, k \in 1..Len(pdr.groups) :
       /\ FileIdAbsentOrEmpty(pdr.groups[j])
       /\ ~FileIdAbsentOrEmpty(pdr.groups[k])

\* the granuleId of the j-th file group: the first component of its file
\* names
GroupId(j) == pdr.groups[j].specs[1].FILE_ID[1]
MatchesFilter(id) ==
  \/ pdr.granuleIdFilter = Null
  \/ pdr.granuleIdFilter = "g"
  \/ pdr.granuleIdFilter = id
ExpectedIds ==
  SelectSeq([j \in 1..Len(pdr.groups) |-> GroupId(j)], MatchesFilter)
ReturnedIds ==
  [j \in 1..Len(pdrOut.granules) |-> pdrOut.granules[j].granuleId]

\* C17: the granules parsePdr returns are, in order, the granules of the
\* PDR whose granuleId matches the granuleIdFilter, and all the granules of
\* the PDR when there is no filter.
C17_FilterRetainsMatching ==
  pdrOut.pc = "returned" => ReturnedIds = ExpectedIds

\* parsePdr has returned one of two granules under a filter
C17_Witness ==
  /\ pdrOut.pc = "returned"
  /\ pdr.granuleIdFilter # Null
  /\ Len(pdr.groups) = 2
  /\ Len(pdrOut.granules) = 1

FileSizes(granule) ==
  [q \in 1..Len(granule.files) |-> granule.files[q].fileSize]

\* C18: granulesCount is the number of returned granules, filesCount the
\* number of their files and totalSize the sum of the sizes of their files.
C18_CountersOverRetained ==
  pdrOut.pc = "returned"
    => /\ pdrOut.granulesCount = Len(pdrOut.granules)
       /\ pdrOut.filesCount
            = SumSeq([j \in 1..Len(pdrOut.granules) |-> Len(pdrOut.granules[j].files)])
       /\ pdrOut.totalSize
            = SumSeq([j \in 1..Len(pdrOut.granules) |->
                        SumSeq(FileSizes(pdrOut.granules[j]))])

\* parsePdr has returned a granule of two files and left out another
C18_Witness ==
  /\ pdrOut.pc = "returned"
  /\ Len(pdrOut.granules) = 1
  /\ Len(pdr.groups) = 2
  /\ Len(pdrOut.granules[1].files) = 2
  /\ pdrOut.totalSize > 4

\* download() of invocation i has thrown ResourcesLockedError
ResourcesLocked(i) == inv[i].result.error = "ResourcesLockedError"

\* C19: the step in which download() throws ResourcesLockedError changes
\* neither the object store nor the lease store, the invocation has started
\* no file download before it and starts none after it, and the lease of
\* the granule it waited for stays in place.
C19_LockedIngestsNothing ==
  [][\A i \in Invs :
       ResourcesLocked(i)'
         => /\ tasks[i] = << >> /\ tasks'[i] = << >>
            /\ inv'[i].updatedGranules = << >>
            /\ inv'[i].result.granules = << >>
            /\ ~ResourcesLocked(i)
                 => /\ store' = store
                    /\ leases' = leases
                    /\ Locked(inv[i].granules[1].granuleId)']_vars

\* one invocation has thrown ResourcesLockedError while the other one, which
\* holds the lease, is ingesting
C19_Witness ==
  \E i, o \in Invs :
    /\ i # o
    /\ ResourcesLocked(i)
    /\ inv[o].pc = "ingesting"
    /\ \E l \in leases : l[2] = inv[i].granules[1].granuleId /\ l[3] = o

\* C20: while an invocation downloads the files of a granule, the lease of
\* (provider, that granule's granuleId) that this invocation created is in
\* the lease store.
C20_LeaseHeldWhileDownloading ==
  \A i \in Invs : \A g \in GranuleIds :
    Downloading(i, g) => <<ProviderId, g, i>> \in leases

\* C21: every file of a Granule that ingest() returned has its bucket set
\* to the destination bucket, its filename set to the location of a staged
\* object and its url_path set, whatever duplicateHandling is.
C21_StagedFieldsSet ==
  \A i \in Invs : \A k \in 1..Len(inv[i].updatedGranules) :
    \A x \in 1..Len(inv[i].updatedGranules[k].files) :
      LET file == inv[i].updatedGranules[k].files[x]
      IN /\ file.bucket = DownloadBucket
         /\ file.filename # NoKey
         /\ file.filename \in DOMAIN store
         /\ file.url_path # Null

\* C23: with duplicateHandling = 'version', ingestFile writes over an
\* existing staged object only while versioning is Enabled on the bucket it
\* writes to.
C23_VersionedBeforeOverwrite ==
  [][\A i \in Invs : \A j \in DOMAIN tasks[i] \cap DOMAIN tasks'[i] :
       ( /\ cfg.duplicateHandling = "version"
         /\ tasks[i][j].pc = "sync"
         /\ tasks'[i][j].pc = "validate"
         /\ FullKey(inv[i], tasks[i][j].file.name) \in DOMAIN store )
         => versioning[DownloadBucket] = "Enabled"]_vars

\* a checksum sidecar: a file named <name>.md5
IsSidecar(n) == n[Len(n)] = "md5"
ReturnedNames(i, k) ==
  { inv[i].updatedGranules[k].files[x].name :
      x \in 1..Len(inv[i].updatedGranules[k].files) }

\* C24: no sidecar is written to the object store or returned among the
\* files of a Granule, and every file of an ingested granule that is no
\* sidecar is among the files returned for it.
C24_SidecarsConsumed ==
  /\ \A key \in DOMAIN store : ~IsSidecar(key[3])
  /\ \A i \in Invs : \A k \in 1..Len(inv[i].updatedGranules) :
       /\ \A n \in ReturnedNames(i, k) : ~IsSidecar(n)
       /\ \A x \in 1..Len(inv[i].granules[k].files) :
            ~IsSidecar(inv[i].granules[k].files[x].name)
              => inv[i].granules[k].files[x].name \in ReturnedNames(i, k)

\* a sidecar of the name is among the files of a granule that the ingest
\* object of invocation i has been given so far
SidecarRegistered(i, n) ==
  \E k \in 1..inv[i].k : \E x \in 1..Len(inv[i].granules[k].files) :
    inv[i].granules[k].files[x].name = n \o <<"md5">>
ExpectedChecksum(i, file) ==
  IF Embedded(file) THEN file.checksumType
  ELSE IF SidecarRegistered(i, file.name) THEN "md5"
  ELSE Null

\* C25: a validation that settles a file of the granule in progress checks
\* it against the embedded checksum when type and value are there, else
\* against the registered sidecar as md5, else against nothing and the file
\* is accepted; with an embedded checksum the file is accepted exactly when
\* the checksum of the staged object is the embedded value.  Where the
\* sidecar stands in the file list makes no difference.
C25_ChecksumOrder ==
  [][\A i \in Invs : \A j \in DOMAIN tasks[i] \cap DOMAIN tasks'[i] :
       ( /\ tasks[i][j].pc = "validate"
         /\ tasks'[i][j].pc \in {"done", "failed"}
         /\ tasks'[i][j].file.name = tasks[i][j].file.name )
         => LET file == tasks[i][j].file
                expected == ExpectedChecksum(i, file)
            IN /\ tasks'[i][j].checksum = expected
               /\ expected = Null => tasks'[i][j].pc = "done"
               /\ Embedded(file)
                    => (tasks'[i][j].pc = "done"
                          <=> checksumS3Objects(expected, FullKey(inv[i], file.name))
                                = file.checksumValue)]_vars

\* Of one granule, a file that has an embedded checksum and a sidecar was
\* checked against the embedded one, and a file whose sidecar is listed
\* after it was checked against the sidecar.
C25_Witness ==
  \E i \in Invs : \E j, j2 \in DOMAIN tasks[i] :
    /\ Embedded(tasks[i][j].file)
    /\ SidecarRegistered(i, tasks[i][j].file.name)
    /\ tasks[i][j].checksum = "CKSUM"
    /\ tasks[i][j2].checksum = "md5"
    /\ \E x \in (j2 + 1)..Len(tasks[i]) :
         tasks[i][x].file.name = tasks[i][j2].file.name \o <<"md5">>

\* the typed error of a failure
TypedError(e) ==
  CASE e = "ECONNREFUSED" -> "RemoteResourceError"
    [] e = "timeout" -> "ConnectionTimeout"
    [] OTHER -> e

\* C26: when download() leaves its catch block, syncGranule rejects with
\* RemoteResourceError for a refused connection, ConnectionTimeout for a
\* timeout and the error itself otherwise; syncGranule resolves only from
\* the end of download(), and an invocation that has rejected stays so.
C26_TypedErrors ==
  [][\A i \in Invs :
       /\ (inv[i].pc = "catch" /\ inv'[i].pc # "catch")
            => /\ inv'[i].pc = "failed"
               /\ inv'[i].result.status = "error"
               /\ inv'[i].result.error = TypedError(inv[i].err)
               /\ inv'[i].result.granules = << >>
       /\ (inv'[i].result.status = "ok" /\ inv[i].result.status # "ok")
            => inv[i].pc = "unlock"
       /\ inv[i].pc = "failed"
            => inv'[i].pc = "failed" /\ inv'[i].result = inv[i].result]_vars

\* an invocation whose provider refused the connection has rejected with
\* RemoteResourceError
C26_Witness ==
  \E i \in Invs :
    /\ inv[i].pc = "failed"
    /\ inv[i].result.error = "RemoteResourceError"
    /\ \E j \in DOMAIN tasks[i] : tasks[i][j].err = "connection"

\* the staging directory of the collection: <fileStagingDir>/<stack>/<collectionId>
CollectionStagingDir == <<"file-staging", "stack", "coll">>

\* C27: every file that an invocation has staged lies in the collection's
\* staging directory under its own name, however many granules the ingest
\* object has ingested before.
C27_OneStagingDir ==
  \A i \in Invs : \A k \in 1..Len(inv[i].updatedGranules) :
    \A x \in 1..Len(inv[i].updatedGranules[k].files) :
      LET file == inv[i].updatedGranules[k].files[x]
      IN file.filename # NoKey
           => file.filename = <<DownloadBucket, CollectionStagingDir, file.name>>

\* the granule in progress of invocation i lists a sidecar of the name
OwnSidecar(i, n) ==
  \E x \in 1..Len(inv[i].granules[inv[i].k].files) :
    inv[i].granules[inv[i].k].files[x].name = n \o <<"md5">>

\* C28: a file of the granule in progress is validated against a sidecar
\* only when that granule itself lists a sidecar of the file.
C28_SidecarOfOwnGranule ==
  \A i \in Invs : \A j \in DOMAIN tasks[i] :
    (inv[i].k > 0 /\ tasks[i][j].checksum = "md5")
      => OwnSidecar(i, tasks[i][j].file.name)

\* C29: a file that already resides at the location its destination rule
\* designates still has its object there at every step of the call and
\* after it.
C29_MoveKeepsObject ==
  \A j \in 1..Len(mv.reqs) :
    (mv.reqs[j].pc # "skip" /\ mv.reqs[j].source = mv.reqs[j].target)
      => Object(mv.reqs[j].target) \in DOMAIN store

\* C30: the url_path values that getUrlPath, addUrlPathToFile and
\* setGranuleInfo have resolved for the same file of the same collection
\* are the same.
C30_UrlPathsAgree ==
  LET out == { urlOut.getUrlPath, urlOut.addUrlPathToFile,
               urlOut.setGranuleInfo } \ {Null}
  IN urlOut.pc = "file" => \A x, y \in out : x = y

====
